---- MODULE Spec2Model ----
(***************************************************************************)
(* Model of maldi_learn/kernels.py: the DiffusionKernel class.             *)
(*                                                                         *)
(* Real numbers are modelled exactly.  For one kernel (one sigma) every    *)
(* value the code computes is a rational combination of the numbers        *)
(* exp(-D / (8 * sigma)), D a squared distance of two peak positions.      *)
(* For integer positions and sigma # 0 these numbers are linearly          *)
(* independent over the rationals for distinct D (Lindemann-Weierstrass),  *)
(* so a value is represented by its coefficients: num[D] / den is the      *)
(* coefficient of exp(-D / (8 * sigma)).  Two values are the same real     *)
(* number iff their coefficients agree.  Floating-point rounding is not    *)
(* modelled; IEEE division by zero (inf, nan) is.                          *)
(***************************************************************************)
EXTENDS Integers, Sequences, FiniteSets, TLC

VARIABLES
    constructed,            \* a DiffusionKernel instance exists
    sigma,                  \* self.sigma
    check_pairwise_arrays,  \* sklearn.metrics.pairwise.check_pairwise_arrays
    X,                      \* the caller's first collection
    Y,                      \* the caller's second collection: None or Some(c)
    op,                     \* the last operation
    eval_gradient,          \* the eval_gradient argument of the last call
    outcome,                \* how the last operation ended
    K,                      \* local K of __call__ (gradient branch)
    K_gradient,             \* local K_gradient of __call__ (gradient branch)
    ret,                    \* the value returned to the caller
    n_evaluate_kernel,      \* pointwise kernel evaluations in the last operation
    n_evaluate_gradient     \* pointwise gradient evaluations in the last operation

vars == <<constructed, sigma, check_pairwise_arrays, X, Y, op, eval_gradient,
          outcome, K, K_gradient, ret, n_evaluate_kernel, n_evaluate_gradient>>

----------------------------------------------------------------------------
(* Bounds of the model *)

MaxPos == 1

MaxN == 2

MaxM == 1

\* the values of the sigma argument of __init__
Sigmas == {0, 1, 2}

BandwidthFactor == 8

GradientFactor == 4

DefaultSigma == 1

----------------------------------------------------------------------------
(* Inputs: weighted point sets and collections *)

Positions == 0 .. MaxPos

\* the squared distances that can occur
ADom == 0 .. (MaxPos * MaxPos)

\* the intensity of the peak at position p in the spectra of the model
HeightAt(p) == p + 1

\* the spectrum with one peak <<position, intensity>> at each position lo..hi
Window(lo, hi) ==
    [i \in 1 .. (hi - lo + 1) |-> <<lo + i - 1, HeightAt(lo + i - 1)>>]

\* a spectrum: an array of shape (n, 2), rows sorted by position; the empty
\* spectrum has shape (0, 2)
Spectra ==
    {<<>>} \cup { Window(lo, hi) : lo \in Positions, hi \in Positions }

None == <<>>

Some(c) == <<c>>

----------------------------------------------------------------------------
(* Values *)

ZeroNum == [d \in ADom |-> 0]

Zero == [nan |-> FALSE, num |-> ZeroNum, den |-> 1]

NaN == [nan |-> TRUE, num |-> ZeroNum, den |-> 1]

IsZero(v) == ~v.nan /\ v.num = ZeroNum

\* the same real number (nan is taken to agree with nan)
SameValue(a, b) ==
    /\ a.nan = b.nan
    /\ ~a.nan => \A d \in ADom : a.num[d] * b.den = b.num[d] * a.den

RECURSIVE SumTo(_, _)
SumTo(f, n) == IF n = 0 THEN 0 ELSE f[n] + SumTo(f, n - 1)

EmptyM == [rows |-> 0, cols |-> 0, a |-> <<>>]

----------------------------------------------------------------------------
(* numpy / sklearn primitives used by the evaluators *)

\* x[:, c] for the 0-based column c
Column(x, c) == [i \in 1 .. Len(x) |-> x[i][c + 1]]

\* pairwise_distances(a, b, metric='sqeuclidean') on 1-d coordinates
pairwise_distances(a, b) ==
    [i \in 1 .. Len(a), j \in 1 .. Len(b) |-> (a[i] - b[j]) * (a[i] - b[j])]

\* np.outer(a, b)
outer(a, b) == [i \in 1 .. Len(a), j \in 1 .. Len(b) |-> a[i] * b[j]]

\* One entry of P * np.exp(-distances / (BandwidthFactor * s)): c times
\* exp(-d / (BandwidthFactor * s)).  With BandwidthFactor * s = 0 the quotient
\* is -0/0 = nan for d = 0 and -inf for d > 0, where exp gives 0.
SmoothedEntry(p, d, s) ==
    IF BandwidthFactor * s = 0
    THEN [nan |-> (d = 0), c |-> 0, d |-> d]
    ELSE [nan |-> FALSE, c |-> p, d |-> d]

\* P * np.exp(-distances / (8 * self.sigma)), elementwise
Smoothed(P, distances, s) ==
    [ij \in DOMAIN P |-> SmoothedEntry(P[ij], distances[ij], s)]

\* One entry of distances * K / (GradientFactor * s**2).  With s = 0 every
\* entry of K is 0 or nan, so the quotient is 0/0 = nan.
GradientEntry(e, s) ==
    IF GradientFactor * s * s = 0
    THEN [nan |-> TRUE, c |-> 0, d |-> e.d]
    ELSE [nan |-> e.nan, c |-> e.d * e.c, d |-> e.d]

\* the coefficient of exp(-d / (8 * sigma)) in np.sum(M), M of shape (n, m)
SumCoef(M, n, m, d) ==
    SumTo([i \in 1 .. n |->
             SumTo([j \in 1 .. m |-> IF M[i, j].d = d THEN M[i, j].c ELSE 0], m)],
          n)

\* NegSum with np.mean in place of np.sum: 0/0 on an empty matrix
NegSum_mean(M, n, m, den) ==
    IF n * m = 0 \/ \E ij \in DOMAIN M : M[ij].nan
    THEN NaN
    ELSE [nan |-> FALSE,
          num |-> [d \in ADom |-> 0 - SumCoef(M, n, m, d)],
          den |-> (IF den = 0 THEN 1 ELSE den) * n * m]

\* -np.sum(M) / den for a matrix M of shape (n, m) of entries
NegSum(M, n, m, den) ==
    IF \E ij \in DOMAIN M : M[ij].nan
    THEN NaN
    ELSE [nan |-> FALSE,
          num |-> [d \in ADom |-> 0 - SumCoef(M, n, m, d)],
          den |-> IF den = 0 THEN 1 ELSE den]

----------------------------------------------------------------------------
(* The pointwise evaluators *)

\* evaluate_kernel with y's positions taken as its peak heights
evaluate_kernel_ycolumn(x, y, s) ==
    LET x_positions == Column(x, 0)
        y_positions == Column(y, 0)
        distances == pairwise_distances(x_positions, y_positions)
        x_peaks == Column(x, 1)
        y_peaks == Column(y, 0)
        P == outer(x_peaks, y_peaks)
        Km == Smoothed(P, distances, s)
    IN  NegSum(Km, Len(x), Len(y), 1)

evaluate_kernel(x, y, s) ==
    LET x_positions == Column(x, 0)
        y_positions == Column(y, 0)
        distances == pairwise_distances(x_positions, y_positions)
        x_peaks == Column(x, 1)
        y_peaks == Column(y, 1)
        P == outer(x_peaks, y_peaks)
        Km == Smoothed(P, distances, s)
    IN  NegSum(Km, Len(x), Len(y), 1)

evaluate_gradient(x, y, s) ==
    LET x_positions == Column(x, 0)
        y_positions == Column(y, 0)
        distances == pairwise_distances(x_positions, y_positions)
        x_peaks == Column(x, 1)
        y_peaks == Column(y, 1)
        P == outer(x_peaks, y_peaks)
        Km == Smoothed(P, distances, s)
        Kg == [ij \in DOMAIN Km |-> GradientEntry(Km[ij], s)]
    IN  NegSum(Kg, Len(x), Len(y), GradientFactor * s * s)

\* diag_value summing only each peak with itself
diag_value_trace(x, s) ==
    LET x_positions == Column(x, 0)
        distances == pairwise_distances(x_positions, x_positions)
        x_peaks == Column(x, 1)
        P == [ij \in DOMAIN distances |->
                IF ij[1] = ij[2] THEN x_peaks[ij[1]] * x_peaks[ij[2]] ELSE 0]
        Km == Smoothed(P, distances, s)
    IN  NegSum(Km, Len(x), Len(x), 1)

\* one element of the loop of diag
diag_value(x, s) ==
    LET x_positions == Column(x, 0)
        distances == pairwise_distances(x_positions, x_positions)
        x_peaks == Column(x, 1)
        P == outer(x_peaks, x_peaks)
        Km == Smoothed(P, distances, s)
    IN  NegSum(Km, Len(x), Len(x), 1)

----------------------------------------------------------------------------
(* The evaluators tabulated over the inputs of the model, so that each      *)
(* pair of spectra is evaluated once.                                       *)

KernelTable ==
    [x \in Spectra, y \in Spectra, s \in Sigmas |-> evaluate_kernel(x, y, s)]

GradientTable ==
    [x \in Spectra, y \in Spectra, s \in Sigmas |-> evaluate_gradient(x, y, s)]

DiagTable == [x \in Spectra, s \in Sigmas |-> diag_value(x, s)]

----------------------------------------------------------------------------
(* pairwise_kernels with a callable metric (sklearn's _pairwise_callable).  *)
(* metric is "kernel" or "gradient".                                       *)

Metric(metric, x, y, s) ==
    IF metric = "kernel" THEN KernelTable[x, y, s] ELSE GradientTable[x, y, s]

\* pairwise_kernels(A, metric=...): the second collection is A itself, only
\* the upper triangle and the diagonal are evaluated and the upper triangle
\* is mirrored (out + out.T)
pairwise_kernels_self(A, metric, s) ==
    [rows |-> Len(A), cols |-> Len(A),
     a |-> [i \in 1 .. Len(A) |-> [j \in 1 .. Len(A) |->
              IF i <= j THEN Metric(metric, A[i], A[j], s)
                        ELSE Metric(metric, A[j], A[i], s)]]]

\* pairwise_kernels_cross with rows and columns exchanged
pairwise_kernels_cross_T(A, B, metric, s) ==
    [rows |-> Len(B), cols |-> Len(A),
     a |-> [j \in 1 .. Len(B) |-> [i \in 1 .. Len(A) |->
              Metric(metric, A[i], B[j], s)]]]

\* pairwise_kernels(A, B, metric=...): every pair of the product
pairwise_kernels_cross(A, B, metric, s) ==
    [rows |-> Len(A), cols |-> Len(B),
     a |-> [i \in 1 .. Len(A) |-> [j \in 1 .. Len(B) |->
              Metric(metric, A[i], B[j], s)]]]

\* the metric calls of pairwise_kernels(A, metric=...)
CallsSelf(A) == (Len(A) * (Len(A) - 1)) \div 2 + Len(A)

\* the metric calls of pairwise_kernels(A, B, metric=...)
CallsCross(A, B) == Len(A) * Len(B)

----------------------------------------------------------------------------
(* Return values *)

\* nothing was returned (no call yet, or the call raised)
Nothing == [kind |-> "nothing", K |-> EmptyM, G |-> EmptyM, d |-> <<>>]

\* Python's None (a function body that ends without a return statement)
RetNone == [kind |-> "None", K |-> EmptyM, G |-> EmptyM, d |-> <<>>]

RetMatrix(M) == [kind |-> "matrix", K |-> M, G |-> EmptyM, d |-> <<>>]

RetArray(v) == [kind |-> "array", K |-> EmptyM, G |-> EmptyM, d |-> v]

----------------------------------------------------------------------------
(* DiffusionKernel *)

Init ==
    /\ constructed = FALSE
    /\ sigma = DefaultSigma
    /\ check_pairwise_arrays = "sklearn"
    /\ X = <<>>
    /\ Y = None
    /\ op = "start"
    /\ eval_gradient = FALSE
    /\ outcome = "none"
    /\ K = EmptyM
    /\ K_gradient = EmptyM
    /\ ret = Nothing
    /\ n_evaluate_kernel = 0
    /\ n_evaluate_gradient = 0

\* the caller's data changed: the results of earlier calls are dropped
NewData ==
    /\ op' = "load"
    /\ eval_gradient' = FALSE
    /\ outcome' = "none"
    /\ K' = EmptyM
    /\ K_gradient' = EmptyM
    /\ ret' = Nothing
    /\ n_evaluate_kernel' = 0
    /\ n_evaluate_gradient' = 0
    /\ UNCHANGED <<constructed, sigma, check_pairwise_arrays>>

\* the caller adds the spectrum sp to its first collection
AppendX(sp) ==
    /\ Len(X) < MaxN
    /\ X' = Append(X, sp)
    /\ Y' = Y
    /\ NewData

\* the caller allocates a second collection
NewY ==
    /\ Y = None
    /\ Y' = Some(<<>>)
    /\ X' = X
    /\ NewData

\* the caller adds the spectrum sp to its second collection
AppendY(sp) ==
    /\ Y # None
    /\ Len(Y[1]) < MaxM
    /\ Y' = Some(Append(Y[1], sp))
    /\ X' = X
    /\ NewData

\* __init__ without the patch of sklearn.metrics.pairwise
Construct_nopatch(s) ==
    /\ constructed' = TRUE
    /\ sigma' = s
    /\ op' = "__init__"
    /\ eval_gradient' = FALSE
    /\ outcome' = "return"
    /\ K' = EmptyM
    /\ K_gradient' = EmptyM
    /\ ret' = Nothing
    /\ n_evaluate_kernel' = 0
    /\ n_evaluate_gradient' = 0
    /\ UNCHANGED <<X, Y, check_pairwise_arrays>>

\* DiffusionKernel.__init__(sigma=s)
Construct(s) ==
    /\ constructed' = TRUE
    /\ sigma' = s
    /\ check_pairwise_arrays' = "passthrough"
    /\ op' = "__init__"
    /\ eval_gradient' = FALSE
    /\ outcome' = "return"
    /\ K' = EmptyM
    /\ K_gradient' = EmptyM
    /\ ret' = Nothing
    /\ n_evaluate_kernel' = 0
    /\ n_evaluate_gradient' = 0
    /\ UNCHANGED <<X, Y>>

\* call_body with the eval_gradient test of the cross branch after the
\* computation of the kernel matrix
call_body_latecheck(Xa, Ya, eg, s) ==
    IF Ya = None
    THEN IF eg
         THEN [outcome |-> "return",
               K |-> pairwise_kernels_self(Xa, "kernel", s),
               K_gradient |-> pairwise_kernels_self(Xa, "gradient", s),
               ret |-> RetNone,
               nk |-> CallsSelf(Xa), ng |-> CallsSelf(Xa)]
         ELSE [outcome |-> "return",
               K |-> EmptyM, K_gradient |-> EmptyM,
               ret |-> RetMatrix(pairwise_kernels_self(Xa, "kernel", s)),
               nk |-> CallsSelf(Xa), ng |-> 0]
    ELSE IF eg
         THEN [outcome |-> "raise",
               K |-> pairwise_kernels_cross(Xa, Ya[1], "kernel", s),
               K_gradient |-> EmptyM,
               ret |-> Nothing,
               nk |-> CallsCross(Xa, Ya[1]), ng |-> 0]
         ELSE [outcome |-> "return",
               K |-> EmptyM, K_gradient |-> EmptyM,
               ret |-> RetMatrix(pairwise_kernels_cross(Xa, Ya[1], "kernel", s)),
               nk |-> CallsCross(Xa, Ya[1]), ng |-> 0]

\* the body of DiffusionKernel.__call__(X, Y, eval_gradient) with self.sigma = s
call_body(Xa, Ya, eg, s) ==
    IF Ya = None
    THEN IF eg
         THEN \* K and K_gradient are computed, the shape is printed and the
              \* function body ends without a return statement
              [outcome |-> "return",
               K |-> pairwise_kernels_self(Xa, "kernel", s),
               K_gradient |-> pairwise_kernels_self(Xa, "gradient", s),
               ret |-> RetNone,
               nk |-> CallsSelf(Xa), ng |-> CallsSelf(Xa)]
         ELSE [outcome |-> "return",
               K |-> EmptyM, K_gradient |-> EmptyM,
               ret |-> RetMatrix(pairwise_kernels_self(Xa, "kernel", s)),
               nk |-> CallsSelf(Xa), ng |-> 0]
    ELSE IF eg
         THEN [outcome |-> "raise",
               K |-> EmptyM, K_gradient |-> EmptyM,
               ret |-> Nothing,
               nk |-> 0, ng |-> 0]
         ELSE [outcome |-> "return",
               K |-> EmptyM, K_gradient |-> EmptyM,
               ret |-> RetMatrix(pairwise_kernels_cross(Xa, Ya[1], "kernel", s)),
               nk |-> CallsCross(Xa, Ya[1]), ng |-> 0]

\* Call consuming the caller's first collection while it iterates
Call_consuming(eg) ==
    /\ constructed
    /\ LET r == call_body(X, Y, eg, sigma)
       IN  /\ outcome' = r.outcome
           /\ K' = r.K
           /\ K_gradient' = r.K_gradient
           /\ ret' = r.ret
           /\ n_evaluate_kernel' = r.nk
           /\ n_evaluate_gradient' = r.ng
    /\ op' = "__call__"
    /\ eval_gradient' = eg
    /\ X' = IF Len(X) > 0 THEN Tail(X) ELSE X
    /\ UNCHANGED <<constructed, sigma, check_pairwise_arrays, Y>>

\* kernel(X, Y, eval_gradient=eg)
Call(eg) ==
    /\ constructed
    /\ LET r == call_body(X, Y, eg, sigma)
       IN  /\ outcome' = r.outcome
           /\ K' = r.K
           /\ K_gradient' = r.K_gradient
           /\ ret' = r.ret
           /\ n_evaluate_kernel' = r.nk
           /\ n_evaluate_gradient' = r.ng
    /\ op' = "__call__"
    /\ eval_gradient' = eg
    /\ UNCHANGED <<constructed, sigma, check_pairwise_arrays, X, Y>>

\* the body of DiffusionKernel.diag(X) with self.sigma = s
diag_body(Xa, s) == [i \in 1 .. Len(Xa) |-> DiagTable[Xa[i], s]]

\* kernel.diag(X)
Diag ==
    /\ constructed
    /\ ret' = RetArray(diag_body(X, sigma))
    /\ outcome' = "return"
    /\ op' = "diag"
    /\ eval_gradient' = FALSE
    /\ K' = EmptyM
    /\ K_gradient' = EmptyM
    /\ n_evaluate_kernel' = 0
    /\ n_evaluate_gradient' = 0
    /\ UNCHANGED <<constructed, sigma, check_pairwise_arrays, X, Y>>

Next ==
    \/ \E sp \in Spectra : AppendX(sp)
    \/ NewY
    \/ \E sp \in Spectra : AppendY(sp)
    \/ \E s \in Sigmas : Construct(s)
    \/ \E eg \in BOOLEAN : Call(eg)
    \/ Diag

Spec == Init /\ [][Next]_vars

----------------------------------------------------------------------------
(* Properties *)

IsCall == op = "__call__"

SelfCall(eg) == IsCall /\ Y = None /\ eval_gradient = eg

CrossCall(eg) == IsCall /\ Y # None /\ eval_gradient = eg

\* M is the matrix of the tabulated evaluator T over the collections A and B
IsMatrixOf(M, T, A, B) ==
    /\ M.rows = Len(A)
    /\ M.cols = Len(B)
    /\ \A i \in 1 .. Len(A) : \A j \in 1 .. Len(B) :
         M.a[i][j] = T[A[i], B[j], sigma]

\* C1: a call with Y omitted and eval_gradient=True returns the pair
\* (K, K_gradient), K[i][j] = evaluate(X[i], X[j], sigma) and
\* K_gradient[i][j] = evaluate_gradient(X[i], X[j], sigma).
C1_GradientCallReturnsPair ==
    SelfCall(TRUE) =>
        /\ outcome = "return"
        /\ ret.kind = "tuple"
        /\ IsMatrixOf(ret.K, KernelTable, X, X)
        /\ IsMatrixOf(ret.G, GradientTable, X, X)

\* C2: a call with Y supplied and eval_gradient=True ends in the error, no
\* pointwise kernel or gradient evaluation has been performed and no matrix
\* is returned.
C2_GradientWithYRaises ==
    CrossCall(TRUE) =>
        /\ outcome = "raise"
        /\ n_evaluate_kernel = 0
        /\ n_evaluate_gradient = 0
        /\ ret = Nothing

C2_Witness ==
    /\ CrossCall(TRUE)
    /\ Len(X) = MaxN
    /\ Len(Y[1]) = MaxM
    /\ outcome = "raise"

\* C3: diag(X) has length len(X) and diag(X)[i] is the [i][i] entry of the
\* matrix the call with Y omitted and eval_gradient=False returns for X.
C3_DiagIsDiagonal ==
    op = "diag" =>
        /\ ret.kind = "array"
        /\ Len(ret.d) = Len(X)
        /\ LET M == call_body(X, None, FALSE, sigma).ret.K
           IN  \A i \in 1 .. Len(X) : ret.d[i] = M.a[i][i]

C3_Witness ==
    /\ op = "diag"
    /\ sigma > 0
    /\ Len(X) = MaxN
    /\ \E i \in 1 .. Len(X) : Len(X[i]) >= 2
    /\ \E i \in 1 .. Len(X) : Len(X[i]) = 1

\* C4: for sigma > 0 the matrix returned in self-similarity mode is
\* symmetric, and the pointwise evaluator is symmetric in its two arguments
\* on the spectra of the collection.
C4_SelfMatrixSymmetric ==
    (SelfCall(FALSE) /\ sigma > 0) =>
        /\ ret.kind = "matrix"
        /\ \A i \in 1 .. Len(X) : \A j \in 1 .. Len(X) :
             /\ ret.K.a[i][j] = ret.K.a[j][i]
             /\ KernelTable[X[i], X[j], sigma] = KernelTable[X[j], X[i], sigma]

C4_Witness ==
    /\ SelfCall(FALSE)
    /\ sigma > 0
    /\ ret.kind = "matrix"
    /\ \E i \in 1 .. Len(X) : \E j \in 1 .. Len(X) :
         /\ Len(X[i]) >= 1
         /\ Len(X[j]) >= 2
         /\ ~IsZero(ret.K.a[i][j])

C6_NonPositiveSigmaRejected ==
    constructed => sigma > 0

\* the derivative with respect to sigma of the value v, a combination of
\* the functions exp(-d / (BandwidthFactor * sigma)) of sigma = s:
\* d/ds exp(-d / (c * s)) = d / (c * s * s) * exp(-d / (c * s))
DerivSigma(v, s) ==
    [nan |-> v.nan,
     num |-> [d \in ADom |-> d * v.num[d]],
     den |-> BandwidthFactor * s * s * v.den]

\* C7: for sigma > 0, evaluate_gradient(x, y, sigma) is the derivative with
\* respect to sigma of evaluate(x, y, sigma), in sign and in magnitude.
C7_GradientIsDerivative ==
    (SelfCall(TRUE) /\ sigma > 0) =>
        \A i \in 1 .. Len(X) : \A j \in 1 .. Len(X) :
            SameValue(K_gradient.a[i][j], DerivSigma(K.a[i][j], sigma))

\* the entry M[i][j] is zero whenever A[i] or B[j] is empty
ZeroOnEmpty(M, A, B) ==
    \A i \in 1 .. Len(A) : \A j \in 1 .. Len(B) :
        (Len(A[i]) = 0 \/ Len(B[j]) = 0) => IsZero(M.a[i][j])

\* C8: for sigma > 0 the kernel value and the gradient value of a pair with
\* an empty point set are 0, and so is the diagonal entry of an empty
\* spectrum.
C8_EmptySpectrumIsZero ==
    sigma > 0 =>
        /\ SelfCall(TRUE) =>
             ZeroOnEmpty(K, X, X) /\ ZeroOnEmpty(K_gradient, X, X)
        /\ SelfCall(FALSE) => ZeroOnEmpty(ret.K, X, X)
        /\ CrossCall(FALSE) => ZeroOnEmpty(ret.K, X, Y[1])
        /\ op = "diag" =>
             \A i \in 1 .. Len(X) : Len(X[i]) = 0 => IsZero(ret.d[i])

C8_Witness ==
    /\ sigma > 0
    /\ SelfCall(TRUE)
    /\ K_gradient.rows = MaxN
    /\ \E i \in 1 .. Len(X) : Len(X[i]) = 0
    /\ \E i \in 1 .. Len(X) : Len(X[i]) >= 2

\* C9: every evaluation operation (the kernel call in each mode, the call
\* that raises, and diag) leaves self.sigma and the caller's collections X
\* and Y unchanged.
C9_EvaluationFrame ==
    [][(op' \in {"__call__", "diag"}) =>
          (sigma' = sigma /\ X' = X /\ Y' = Y)]_vars

C9_Witness ==
    /\ CrossCall(TRUE)
    /\ outcome = "raise"
    /\ sigma = 2
    /\ Len(X) >= 1

\* C10: in every state after at least one construction the shared routine
\* check_pairwise_arrays is the pass-through.
C10_ValidationStaysPatched ==
    constructed => check_pairwise_arrays = "passthrough"

C10_Witness ==
    /\ constructed
    /\ op = "diag"
    /\ Len(X) >= 1
    /\ check_pairwise_arrays = "passthrough"

====
